---- MODULE Spec2Model ----
(***************************************************************************)
(* Attestation-order store (DbService) of the attestation kit.             *)
(*                                                                         *)
(* The repository holds two deployment variants of DbService:              *)
(*   "providerless"  src/src/start.js lines 27-233                         *)
(*   "provider"      src/src/db/DbService.js lines 1-179                   *)
(* The variant is fixed at start-up; every operation dispatches on it.     *)
(* Every DbService method awaits its SELECT before it issues its           *)
(* INSERT/UPDATE, so a method is two atomic steps (lookup, write) and      *)
(* other flows may run between them.                                       *)
(*                                                                         *)
(* verifyHandler (src/unnamed/part_000) is the verification protocol: it   *)
(* requires ../db/DbService, the provider variant, and runs in up to three *)
(* atomic steps separated by its awaits (order lookup and issuance call,   *)
(* issuance result and finalize lookup, finalize write and notification).  *)
(*                                                                         *)
(* SessionStore and walletAddressHandler                                   *)
(* (src/src/walletHandlers/walletAddressHandler.js) are the session cache: *)
(* every method is synchronous, so each is one atomic step.                *)
(***************************************************************************)
EXTENDS Integers, Sequences, FiniteSets, TLC

VARIABLES
    variant,   \* which DbService is deployed
    orders,    \* table ATTESTATION_KIT_attestations, row id = index
    pc,        \* per flow: the call in progress after its awaited SELECT
    recording, \* whether the outcome of completed calls is recorded in last
    last,      \* the call that completed most recently, with its outcome
    verifying, \* per flow: the verifyHandler run in progress
    issued,    \* the postAttestationProfile calls made: [id, addr]
    attested,  \* the ATTESTATION_KIT_ATTESTED events emitted: [id, addr, unit]
    lastRun,   \* the verifyHandler run that completed most recently
    sessions,  \* SessionStore.sessions: endpoint -> [id, ts, address]
    added,     \* the ATTESTATION_KIT_ADDED_ADDRESS events emitted: <<endpoint, address>>
    lastSession \* the session operation that completed most recently

svars == <<sessions, added, lastSession>>

hvars == <<verifying, issued, attested, lastRun, svars>>

vars == <<variant, orders, pc, recording, last, verifying, issued, attested, lastRun,
          sessions, added, lastSession>>

(***************************************************************************)
(* Bounds and input universes                                              *)
(***************************************************************************)
MaxOrders == 2

Procs == {"flow1", "flow2"}

Variants == {"providerless", "provider"}

NULL == "NULL"

Providers == {"default"}

Addresses == {"ADDR1", "ADDR2"}

Units == {"unit1", "unit2"}

Devices == {"device1"}

\* session cache: endpoints, the ids nanoid can draw, the readings of the clock
Endpoints == {"device1", "device2"}

SessionIds == {"id1", "id2"}

MaxTime == 2

Times == 1..MaxTime

\* what a user can send as a wallet address
AddressTexts == Addresses \cup {"bad"}

Slots == 1..4

\* JavaScript values of a data object: a string or a number
Str(s) == [t |-> "string", s |-> s]

Num(s) == [t |-> "number", s |-> s]

\* A data object is the sequence of its [key, value] entries in insertion
\* order (Object.keys / Object.values / Object.entries order).
DataAlice == <<(<<"username", Str("alice")>>)>>

DataAlice42 == <<(<<"username", Str("alice")>>), (<<"userId", Num("42")>>)>>

DataObjects == {DataAlice, DataAlice42}

\* the same attributes given in the other order, and a data object that
\* fills all four slots
Data42Alice == <<(<<"userId", Num("42")>>), (<<"username", Str("alice")>>)>>

DataFull ==
    <<(<<"username", Str("alice")>>), (<<"userId", Num("42")>>),
      (<<"email", Str("a@x")>>), (<<"rank", Num("7")>>)>>

CreateData == {DataAlice, DataAlice42, Data42Alice, DataFull}

\* data of a signed claim: what the signed payload holds besides its message,
\* the declared provider included
DataClaim == <<(<<"username", Str("alice")>>), (<<"provider", Str("default")>>)>>

DataClaimOther == <<(<<"username", Str("alice")>>), (<<"provider", Str("other")>>)>>

ClaimData == {DataClaim, DataClaimOther, DataAlice}

\* a claim that carries its address in the data
DataClaimAddress ==
    <<(<<"username", Str("alice")>>), (<<"provider", Str("default")>>),
      (<<"address", Str("ADDR2")>>)>>

\* an inbound message as verifyHandler sees it. block: the text holds a
\* (signed-message:...) block; json: the decoded block parses; sig:
\* validateSignedMessage reports no error; author: authors[0].address, NULL
\* when the author list is empty; inner: signed_message parses; claim: the
\* text after "I own the address: " in the signed message, NULL when it has
\* no such phrase; data: the rest of the signed payload
Message(block, json, sig, author, inner, claim, data) ==
    [block |-> block, json |-> json, sig |-> sig, author |-> author,
     inner |-> inner, claim |-> claim, data |-> data]

SignedBy(author, claim, data) == Message(TRUE, TRUE, TRUE, author, TRUE, claim, data)

\* well-formed signed claims by two authors, with a claimed address that is
\* ADDR1, not an address or missing, or is carried in the data, and one
\* message for each way of being malformed
Messages ==
    {SignedBy(author, claim, data) :
        author \in Addresses, claim \in {"ADDR1", "bad", NULL}, data \in ClaimData}
    \cup {SignedBy(author, NULL, DataClaimAddress) : author \in Addresses}
    \cup {Message(FALSE, TRUE, TRUE, "ADDR1", TRUE, "ADDR1", DataClaim),
          Message(TRUE, FALSE, TRUE, "ADDR1", TRUE, "ADDR1", DataClaim),
          Message(TRUE, TRUE, FALSE, "ADDR1", TRUE, "ADDR1", DataClaim),
          Message(TRUE, TRUE, TRUE, NULL, TRUE, "ADDR1", DataClaim),
          Message(TRUE, TRUE, TRUE, "ADDR1", FALSE, "ADDR1", DataClaim)}

(***************************************************************************)
(* Collaborators outside src/                                              *)
(***************************************************************************)
IsWalletAddress(a) == a \in Addresses

IsUnit(u) == u \in Units

IsServiceProvider(s) == s \in Providers

IsDataObject(d) ==
    /\ Len(d) \in 1..4
    /\ \A i, j \in DOMAIN d : d[i][1] = d[j][1] => i = j

\* status column default of a freshly inserted row
DefaultStatus == "pending"

\* transformDataValuesToObject(order): the order's stored data as an object,
\* every value a string
transformDataValuesToObject(row) ==
    {<<row.k[s], [t |-> "string", s |-> row.v[s]]>> : s \in {x \in Slots : row.k[x] # NULL}}

(***************************************************************************)
(* Values                                                                  *)
(***************************************************************************)
\* String(v): a number becomes its decimal text, a string is itself
String(v) == v.s

\* a raw query parameter compared with a text column
SqlText(v) == v.s

\* The stored attribute set of a row, as a set of <<key, text>> pairs
StoredPairs(row) == {<<row.k[s], row.v[s]>> : s \in {x \in Slots : row.k[x] # NULL}}

\* The attribute set of a data object after coercion of its values
CanonicalPairs(data) == {<<data[i][1], String(data[i][2])>> : i \in DOMAIN data}

(***************************************************************************)
(* The table                                                               *)
(***************************************************************************)
\* the mistake of passing the parameters as k0, v0, k1, v1, ... to a column
\* list that names all the key columns first and the value columns after
NewRowInterleaved(prov, data, addr) ==
    LET n    == Len(data)
        args == [j \in 1..(2 * n) |->
                    IF j % 2 = 1 THEN data[(j + 1) \div 2][1]
                                 ELSE String(data[j \div 2][2])]
    IN  [ service_provider    |-> prov,
          k                   |-> [s \in Slots |-> IF s <= n THEN args[s] ELSE NULL],
          v                   |-> [s \in Slots |-> IF s <= n THEN args[n + s] ELSE NULL],
          user_wallet_address |-> addr,
          user_device_address |-> NULL,
          unit                |-> NULL,
          status              |-> DefaultStatus ]

\* INSERT INTO ... (owner column, dataKey0.., dataValue0..) VALUES (...):
\* entry i of the data object goes to slot i, values as String(v); the
\* columns the statement does not name take their defaults.
NewRow(prov, data, addr) ==
    [ service_provider    |-> prov,
      k                   |-> [s \in Slots |-> IF s <= Len(data) THEN data[s][1] ELSE NULL],
      v                   |-> [s \in Slots |-> IF s <= Len(data) THEN String(data[s][2]) ELSE NULL],
      user_wallet_address |-> addr,
      user_device_address |-> NULL,
      unit                |-> NULL,
      status              |-> DefaultStatus ]

\* (dataKeyN = ? AND dataValueN = ?)
SlotMatch(row, s, key, text) == row.k[s] = key /\ row.v[s] = text

\* A lookup filter
Filter(prov, data, addr, id, excl) ==
    [serviceProvider |-> prov, data |-> data, address |-> addr, id |-> id,
     excludeAttested |-> excl]

\* providerless WHERE clause: one parenthesised OR-group per data entry,
\* the groups and the other filters joined by AND
WhereProviderless(row, rid, f) ==
    /\ \A e \in DOMAIN f.data :
          \E s \in Slots : SlotMatch(row, s, f.data[e][1], String(f.data[e][2]))
    /\ (f.address # NULL => row.user_wallet_address = f.address)
    /\ (f.id # 0 => rid = f.id)
    /\ (f.excludeAttested => row.status # "attested")

\* provider WHERE clause, as the flat text the code concatenates: a sequence
\* of conditions, each joined to what precedes it by AND or OR
Cond(conn, val) == [conn |-> conn, val |-> val]

RECURSIVE EntryConds(_, _, _)
EntryConds(row, data, e) ==
    IF e > Len(data) THEN <<>>
    ELSE << Cond("AND", SlotMatch(row, 1, data[e][1], SqlText(data[e][2]))),
            Cond("OR",  SlotMatch(row, 2, data[e][1], SqlText(data[e][2]))),
            Cond("OR",  SlotMatch(row, 3, data[e][1], SqlText(data[e][2]))),
            Cond("OR",  SlotMatch(row, 4, data[e][1], SqlText(data[e][2]))) >>
         \o EntryConds(row, data, e + 1)

QueryProvider(row, f) ==
    << Cond("AND", row.service_provider = f.serviceProvider) >>
    \o EntryConds(row, f.data, 1)
    \o (IF f.address # NULL
        THEN << Cond("AND", row.user_wallet_address = f.address) >> ELSE <<>>)
    \o (IF f.excludeAttested
        THEN << Cond("AND", row.status # "attested") >> ELSE <<>>)

\* SQL evaluation of a flat condition list: AND binds tighter than OR
RECURSIVE EvalSql(_, _, _)
EvalSql(conds, i, cur) ==
    IF i > Len(conds) THEN cur
    ELSE IF conds[i].conn = "OR"
         THEN cur \/ EvalSql(conds, i + 1, conds[i].val)
         ELSE EvalSql(conds, i + 1, cur /\ conds[i].val)

WhereProvider(row, f) == EvalSql(QueryProvider(row, f), 1, TRUE)

\* ids of the rows s selects for filter f under variant v
SelectRows(v, s, f) ==
    {i \in DOMAIN s :
        IF v = "providerless" THEN WhereProviderless(s[i], i, f)
                              ELSE WhereProvider(s[i], f)}

Min(S) == CHOOSE x \in S : \A y \in S : x <= y

\* getAttestationOrders(filters, multiple = false): attestationRows[0] || null
\* (0 stands for null)
FirstRow(v, s, f) ==
    IF SelectRows(v, s, f) = {} THEN 0 ELSE Min(SelectRows(v, s, f))

getAttestationOrders(f) == FirstRow(variant, orders, f)

(***************************************************************************)
(* Flows and the record of the last completed call                         *)
(***************************************************************************)
Idle ==
    [op |-> "idle", id |-> 0, prov |-> NULL, data |-> <<>>, addr |-> NULL,
     unit |-> NULL, dup |-> FALSE, rep |-> 0, pre |-> FALSE, seen |-> NULL,
     m |-> "none"]

\* op: the method; prov, data, addr, dup, unit: its arguments (data only for
\* createAttestationOrder and getAttestationOrders); code: "OK" or
\* the code of the error thrown; id: the order id returned or written, for
\* an error the order the lookup returned;
\* changed: rows inserted or updated; status, unit: the fields an
\* ALREADY_EXISTS error carries; rep: when this createAttestationOrder call
\* directly follows a successful call with the same arguments and
\* allowDuplicates, the id that call returned, else 0; pre: an exactly
\* matching non-attested order existed when the call looked up; m: for a
\* bind or unbind call, the kind of the orders its selector matched exactly
\* when it looked up (MatchKind).
NoCall ==
    [op |-> "none", prov |-> NULL, data |-> <<>>, addr |-> NULL, dup |-> FALSE,
     code |-> "OK", id |-> 0, changed |-> 0, status |-> NULL, unit |-> NULL,
     rep |-> 0, pre |-> FALSE, m |-> "none"]

Call(op, prov, data, addr, dup) ==
    [NoCall EXCEPT !.op = op, !.prov = prov, !.data = data, !.addr = addr,
                   !.dup = dup]

Thrown(op, prov, data, addr, dup, code) ==
    [Call(op, prov, data, addr, dup) EXCEPT !.code = code]

\* arguments a caller can pass under the deployed variant: the providerless
\* methods take no serviceProvider, the provider createAttestationOrder takes
\* no address
ProviderArgs == IF variant = "providerless" THEN {NULL} ELSE Providers

CreateAddressArgs == IF variant = "providerless" THEN Addresses \cup {NULL} ELSE {NULL}

\* rows about to be inserted by flows that finished their lookup
PendingInserts == Cardinality({q \in Procs : pc[q].op = "insert"})

\* the outcome a completed call leaves in last
Record(c) == IF recording THEN c ELSE NoCall

\* a flag of a call in progress that only its recorded outcome reads
Note(b) == recording /\ b

\* the orders a selector (prov, data and, when given, addr) matches exactly
ExactMatches(prov, data, addr) ==
    {i \in DOMAIN orders :
        /\ orders[i].service_provider = prov
        /\ StoredPairs(orders[i]) = CanonicalPairs(data)
        /\ (addr # NULL => orders[i].user_wallet_address = addr)}

\* the kind of those orders: "none" when there is none, "attested" when all
\* are attested, else by the non-attested ones: "addressed" when one is
\* addressed with a bound address, "pending" when all are pending with no
\* address, "other" for the rest
MatchKind(prov, data, addr) ==
    LET M == ExactMatches(prov, data, addr)
        O == {i \in M : orders[i].status # "attested"}
    IN  IF M = {} THEN "none"
        ELSE IF O = {} THEN "attested"
        ELSE IF \E i \in O : /\ orders[i].status = "addressed"
                             /\ orders[i].user_wallet_address # NULL
             THEN "addressed"
        ELSE IF \A i \in O : /\ orders[i].status = "pending"
                             /\ orders[i].user_wallet_address = NULL
             THEN "pending"
        ELSE "other"

\* the kind as a recorded outcome keeps it
Kind(prov, data, addr) == IF recording THEN MatchKind(prov, data, addr) ELSE "none"

\* order is matched exactly by the selector and is pending with no address
PendingMatch(order, prov, data) ==
    /\ order \in ExactMatches(prov, data, NULL)
    /\ orders[order].status = "pending"
    /\ orders[order].user_wallet_address = NULL

\* the order a directly preceding successful bind call bound, when that
\* order was a PendingMatch of the bind call and this selector matches it
\* exactly as well; else 0
BoundBy(c, prov, data, addr) ==
    IF /\ c.op = "bind" /\ c.code = "OK" /\ c.pre /\ c.changed = 1
       /\ c.id \in ExactMatches(prov, data, addr)
    THEN c.id ELSE 0

\* a verifyHandler run: stage "idle" (none in progress), "issuing" (awaiting
\* postAttestationProfile) or "writing" (awaiting the finalize UPDATE); msg:
\* the inbound message; id: the order its lookup returned; addr: the
\* address it claims; unit: the unit issued; replies: the messages sent to
\* the device so far
NoRun ==
    [stage |-> "idle", msg |-> Message(FALSE, FALSE, FALSE, NULL, FALSE, NULL, <<>>),
     id |-> 0, addr |-> NULL, unit |-> NULL, replies |-> <<>>]

\* no run in progress, nothing issued or emitted yet
HandlerInit ==
    /\ verifying = [p \in Procs |-> NoRun]
    /\ issued = {}
    /\ attested = {}
    /\ lastRun = NoRun

\* a session operation and its outcome; ret is what the call returned
NoSessionCall ==
    [op |-> "none", dev |-> NULL, arg |-> NULL, replace |-> FALSE, existed |-> FALSE,
     code |-> "OK", ret |-> "undefined"]

\* an endpoint with no entry in the sessions Map
NoSession == [has |-> FALSE, id |-> NULL, ts |-> 0, address |-> NULL]

\* this.sessions.has(deviceAddress)
HasSession(dev) == sessions[dev].has

SessionCall(op, dev, arg, code) ==
    [NoSessionCall EXCEPT !.op = op, !.dev = dev, !.arg = arg, !.code = code,
                          !.existed = HasSession(dev)]

\* new SessionStore(): no session
SessionInit ==
    /\ sessions = [dev \in Endpoints |-> NoSession]
    /\ added = {}
    /\ lastSession = NoSessionCall

Init ==
    /\ variant \in Variants
    /\ orders = <<>>
    /\ pc = [p \in Procs |-> Idle]
    /\ recording = TRUE
    /\ last = NoCall
    /\ HandlerInit
    /\ SessionInit

\* concurrent flows, outcomes not recorded
InitRace ==
    /\ variant \in Variants
    /\ orders = <<>>
    /\ pc = [p \in Procs |-> Idle]
    /\ recording = FALSE
    /\ last = NoCall
    /\ HandlerInit
    /\ SessionInit

(***************************************************************************)
(* createAttestationOrder                                                  *)
(***************************************************************************)
\* an order for exactly (prov, data), not attested, that an address filter
\* (when given) accepts
ExactOpenMatch(prov, data, addr) ==
    \E i \in DOMAIN orders :
        /\ orders[i].status # "attested"
        /\ orders[i].service_provider = prov
        /\ StoredPairs(orders[i]) = CanonicalPairs(data)
        /\ (addr # NULL => orders[i].user_wallet_address = addr)

\* the id a directly preceding identical successful call returned
RepeatOf(c, prov, data, addr, dup) ==
    IF /\ c.op = "create" /\ c.code = "OK" /\ c.dup /\ dup
       /\ c.prov = prov /\ c.data = data /\ c.addr = addr
    THEN c.id ELSE 0

\* what the call does with the looked-up order (0: none)
CreateBranch(order, allowDuplicates) ==
    IF order = 0 THEN "insert"
    ELSE IF ~allowDuplicates THEN "throw"
    ELSE "return"

\* the error the "Order already exists" line raises: the provider variant
\* builds its payload from the identifiers username and userId, which are
\* not defined there
AlreadyExistsError(c, row) ==
    IF variant = "providerless"
    THEN [c EXCEPT !.code = "ALREADY_EXISTS", !.status = row.status, !.unit = row.unit]
    ELSE [c EXCEPT !.code = "ReferenceError"]

createAttestationOrder_Lookup(p, prov, data, addr, dup) ==
    /\ pc[p].op = "idle"
    /\ IsDataObject(data)
    /\ addr # NULL => IsWalletAddress(addr)
    /\ LET order  == getAttestationOrders(Filter(prov, data, addr, 0, dup))
           rep    == RepeatOf(last, prov, data, addr, dup)
           pre    == ExactOpenMatch(prov, data, addr)
           c      == [Call("create", prov, data, addr, dup) EXCEPT !.rep = rep, !.pre = pre]
           branch == CreateBranch(order, dup)
       IN  IF branch = "insert"
           THEN /\ Len(orders) + PendingInserts < MaxOrders
                /\ pc' = [pc EXCEPT ![p] = [Idle EXCEPT !.op = "insert", !.prov = prov,
                                              !.data = data, !.addr = addr, !.dup = Note(dup),
                                              !.rep = rep, !.pre = Note(pre)]]
                /\ UNCHANGED last
           ELSE /\ last' = Record(IF branch = "throw"
                                  THEN [AlreadyExistsError(c, orders[order]) EXCEPT !.id = order]
                                  ELSE [c EXCEPT !.id = order])
                /\ UNCHANGED pc
    /\ UNCHANGED <<variant, recording, orders>>

createAttestationOrder_Insert(p) ==
    /\ pc[p].op = "insert"
    /\ orders' = Append(orders, NewRow(pc[p].prov, pc[p].data, pc[p].addr))
    /\ last' = Record([Call("create", pc[p].prov, pc[p].data, pc[p].addr, pc[p].dup)
                  EXCEPT !.id = Len(orders) + 1, !.changed = 1, !.pre = pc[p].pre,
                         !.rep = IF pc[p].rep # 0 /\ pc[p].rep =
                                     RepeatOf(last, pc[p].prov, pc[p].data, pc[p].addr, pc[p].dup)
                                 THEN pc[p].rep ELSE 0])
    /\ pc' = [pc EXCEPT ![p] = Idle]
    /\ UNCHANGED <<variant, recording>>

(***************************************************************************)
(* removeWalletAddressInAttestationOrder                                   *)
(***************************************************************************)
\* the check made on the looked-up row before the UPDATE; "" lets it through
RemoveGuard(row) ==
    IF row.user_wallet_address = NULL THEN "ADDRESS_NOT_FOUND"
    ELSE IF variant = "providerless"
         THEN (IF row.status = "attested" \/ row.unit # NULL THEN "ALREADY_ATTESTED" ELSE "")
         ELSE (IF row.status # "addressed" THEN "ALREADY_ATTESTED" ELSE "")

\* WHERE id = ?    /    WHERE service_provider = ? AND id = ?
RemoveWhere(row, rid, prov, id) ==
    /\ rid = id
    /\ (variant = "provider" => row.service_provider = prov)

removeWalletAddressInAttestationOrder_Lookup(p, prov, data, addr) ==
    /\ pc[p].op = "idle"
    /\ (variant = "provider" => IsServiceProvider(prov))
    /\ IsDataObject(data)
    /\ addr # NULL => IsWalletAddress(addr)
    /\ LET order == getAttestationOrders(Filter(prov, data, addr, 0, TRUE))
           code  == IF order = 0 THEN "ADDRESS_NOT_FOUND" ELSE RemoveGuard(orders[order])
       IN  IF code = ""
           THEN /\ pc' = [pc EXCEPT ![p] = [Idle EXCEPT !.op = "unbind", !.id = order,
                                              !.prov = prov, !.addr = addr,
                                              !.m = Kind(prov, data, addr),
                                              !.rep = BoundBy(last, prov, data, addr)]]
                /\ UNCHANGED last
           ELSE /\ last' = Record([Thrown("unbind", prov, <<>>, addr, FALSE, code)
                                     EXCEPT !.id = order, !.m = Kind(prov, data, addr),
                                            !.rep = BoundBy(last, prov, data, addr)])
                /\ UNCHANGED pc
    /\ UNCHANGED <<variant, recording, orders>>

removeWalletAddressInAttestationOrder_Update(p) ==
    /\ pc[p].op = "unbind"
    /\ LET hit == {i \in DOMAIN orders : RemoveWhere(orders[i], i, pc[p].prov, pc[p].id)}
       IN  /\ orders' = [i \in DOMAIN orders |->
                            IF i \in hit
                            THEN [orders[i] EXCEPT !.user_wallet_address = NULL,
                                                   !.status = "pending"]
                            ELSE orders[i]]
           /\ last' = Record([Call("unbind", pc[p].prov, <<>>, pc[p].addr, FALSE)
                                EXCEPT !.id = pc[p].id, !.changed = Cardinality(hit),
                                       !.m = pc[p].m, !.rep = pc[p].rep])
    /\ pc' = [pc EXCEPT ![p] = Idle]
    /\ UNCHANGED <<variant, recording>>

(***************************************************************************)
(* updateWalletAddressInAttestationOrder                                   *)
(***************************************************************************)
\* WHERE [service_provider = ? AND] status != 'attested' AND id = ?
UpdateWalletWhere(row, rid, prov, id) ==
    /\ (variant = "provider" => row.service_provider = prov)
    /\ row.status # "attested"
    /\ rid = id

updateWalletAddressInAttestationOrder_Lookup(p, prov, data, walletAddress) ==
    /\ pc[p].op = "idle"
    /\ LET valid == /\ (variant = "provider" => IsServiceProvider(prov))
                    /\ IsWalletAddress(walletAddress)
                    /\ IsDataObject(data)
           order == IF valid THEN getAttestationOrders(Filter(prov, data, NULL, 0, TRUE))
                    ELSE 0
           code  == IF ~valid THEN "INVALID_DATA"
                    ELSE IF order = 0 THEN "ORDER_NOT_FOUND"
                    ELSE IF orders[order].status = "attested" THEN "ALREADY_ATTESTED"
                    ELSE ""
       IN  IF code = ""
           THEN /\ pc' = [pc EXCEPT ![p] = [Idle EXCEPT !.op = "bind", !.id = order,
                                              !.prov = prov, !.addr = walletAddress,
                                              !.m = Kind(prov, data, NULL),
                                              !.pre = Note(PendingMatch(order, prov, data))]]
                /\ UNCHANGED last
           ELSE /\ last' = Record([Thrown("bind", prov, <<>>, walletAddress, FALSE, code)
                                     EXCEPT !.id = order, !.m = Kind(prov, data, NULL)])
                /\ UNCHANGED pc
    /\ UNCHANGED <<variant, recording, orders>>

updateWalletAddressInAttestationOrder_Update(p) ==
    /\ pc[p].op = "bind"
    /\ LET hit == {i \in DOMAIN orders : UpdateWalletWhere(orders[i], i, pc[p].prov, pc[p].id)}
       IN  /\ orders' = [i \in DOMAIN orders |->
                            IF i \in hit
                            THEN [orders[i] EXCEPT !.user_wallet_address = pc[p].addr,
                                                   !.status = "addressed"]
                            ELSE orders[i]]
           /\ last' = Record([Call("bind", pc[p].prov, <<>>, pc[p].addr, FALSE)
                                EXCEPT !.id = pc[p].id, !.changed = Cardinality(hit),
                                       !.m = pc[p].m, !.pre = pc[p].pre])
    /\ pc' = [pc EXCEPT ![p] = Idle]
    /\ UNCHANGED <<variant, recording>>

(***************************************************************************)
(* updateUnitAndChangeStatus                                               *)
(***************************************************************************)
\* WHERE [service_provider = ? AND] id = ? AND user_wallet_address = ?
UpdateUnitWhere(row, rid, prov, id, address) ==
    /\ (variant = "provider" => row.service_provider = prov)
    /\ rid = id
    /\ row.user_wallet_address = address

updateUnitAndChangeStatus_Lookup(p, prov, data, address, unit) ==
    /\ pc[p].op = "idle"
    /\ LET valid == /\ (variant = "provider" => IsServiceProvider(prov))
                    /\ IsUnit(unit)
                    /\ IsWalletAddress(address)
                    /\ IsDataObject(data)
           order == IF valid THEN getAttestationOrders(Filter(prov, data, address, 0, TRUE))
                    ELSE 0
           code  == IF ~valid THEN "INVALID_DATA"
                    ELSE IF order = 0 THEN "ORDER_NOT_FOUND"
                    ELSE ""
       IN  IF code = ""
           THEN /\ pc' = [pc EXCEPT ![p] = [Idle EXCEPT !.op = "finalize", !.id = order,
                                              !.prov = prov, !.addr = address, !.unit = unit,
                                              !.seen = orders[order].status]]
                /\ UNCHANGED last
           ELSE /\ last' = Record([Thrown("finalize", prov, <<>>, address, FALSE, code)
                                     EXCEPT !.unit = unit])
                /\ UNCHANGED pc
    /\ UNCHANGED <<variant, recording, orders>>

updateUnitAndChangeStatus_Update(p) ==
    /\ pc[p].op = "finalize"
    /\ LET hit == {i \in DOMAIN orders :
                      UpdateUnitWhere(orders[i], i, pc[p].prov, pc[p].id, pc[p].addr)}
       IN  /\ orders' = [i \in DOMAIN orders |->
                            IF i \in hit
                            THEN [orders[i] EXCEPT !.unit = pc[p].unit,
                                                   !.status = "attested"]
                            ELSE orders[i]]
           /\ last' = Record([Call("finalize", pc[p].prov, <<>>, pc[p].addr, FALSE)
                                EXCEPT !.id = pc[p].id, !.unit = pc[p].unit,
                                       !.changed = Cardinality(hit)])
    /\ pc' = [pc EXCEPT ![p] = Idle]
    /\ UNCHANGED <<variant, recording>>

(***************************************************************************)
(* updateDeviceAddressInAttestationOrder (providerless variant only)       *)
(***************************************************************************)
\* the UPDATE without its status condition
UpdateDeviceWhereAnyStatus(row, rid, id) == rid = id

\* WHERE status != 'attested' AND id = ?
UpdateDeviceWhere(row, rid, id) == row.status # "attested" /\ rid = id

updateDeviceAddressInAttestationOrder(p, orderId, deviceAddress) ==
    /\ pc[p].op = "idle"
    /\ variant = "providerless"
    /\ LET valid == orderId # 0 /\ deviceAddress # NULL
           hit   == {i \in DOMAIN orders : valid /\ UpdateDeviceWhere(orders[i], i, orderId)}
       IN  /\ orders' = [i \in DOMAIN orders |->
                            IF i \in hit
                            THEN [orders[i] EXCEPT !.user_device_address = deviceAddress]
                            ELSE orders[i]]
           /\ last' = Record([Call("rebind", NULL, <<>>, deviceAddress, FALSE)
                                EXCEPT !.id = orderId, !.changed = Cardinality(hit),
                                       !.code = IF valid THEN "OK" ELSE "INVALID_DATA"])
    /\ UNCHANGED <<variant, recording, pc>>

(***************************************************************************)
(* getAttestationOrders called directly (findOrder)                        *)
(***************************************************************************)
findOrder(p, prov, data, addr, excl) ==
    /\ pc[p].op = "idle"
    /\ (variant = "provider" => IsServiceProvider(prov))
    /\ addr # NULL => IsWalletAddress(addr)
    /\ IsDataObject(data)
    /\ last' = Record([Call("find", prov, data, addr, excl)
                  EXCEPT !.id = getAttestationOrders(Filter(prov, data, addr, 0, excl))])
    /\ UNCHANGED <<variant, recording, orders, pc>>

(***************************************************************************)
(* verifyHandler                                                           *)
(***************************************************************************)
defaultServiceProvider == "default"

\* data[key] of a data object
Field(data, key) ==
    IF \E i \in DOMAIN data : data[i][1] = key
    THEN data[CHOOSE i \in DOMAIN data : data[i][1] = key][2]
    ELSE [t |-> "undefined", s |-> NULL]

\* a JavaScript value where a string is expected: undefined is NULL, and
\* a value that is not a string is === to no string ("NaS")
AsString(v) == IF v.t \in {"string", "undefined"} THEN v.s ELSE "NaS"

\* let address = data.address, replaced by the text after the ownership
\* phrase when the message has one
ClaimedAddress(msg) ==
    IF msg.claim # NULL THEN msg.claim ELSE AsString(Field(msg.data, "address"))

\* the handler without its two VALIDATION_FAILED returns
ValidationSkipped(msg) == TRUE

\* validateSignedMessage reported no error and the author list is not empty
ValidationPassed(msg) == msg.sig /\ msg.author # NULL

\* the handler without its address comparison
AddressCheckSkipped(address, walletAddress) == TRUE

\* !address || walletAddress === address
AddressCheck(address, walletAddress) == address = NULL \/ walletAddress = address

\* the data check reduced to its provider comparison
DataCheckProviderOnly(row, data) == AsString(Field(data, "provider")) = row.service_provider

\* isEqual(transformDataValuesToObject(order), data)
\*     && data.provider === order.service_provider
DataCheck(row, data) ==
    /\ transformDataValuesToObject(row) = {data[i] : i \in DOMAIN data}
    /\ AsString(Field(data, "provider")) = row.service_provider

\* the order the handler's lookup returns
LookedUp(msg) ==
    getAttestationOrders(Filter(defaultServiceProvider, msg.data, ClaimedAddress(msg), 0, FALSE))

\* where the handler's first step ends for msg: the reply it returns with,
\* or "issue" when it goes on to postAttestationProfile. Taking the
\* ALREADY_ATTESTED text evaluates the identifiers username and id, which
\* are not defined: the ReferenceError lands in the outer catch.
Branch(msg) ==
    IF ~msg.block THEN "INVALID_FORMAT_SIGNED_MESSAGE"
    ELSE IF ~msg.json THEN "UNKNOWN_ERROR"
    ELSE IF ~ValidationPassed(msg) THEN "VALIDATION_FAILED"
    ELSE IF ~msg.inner THEN "INVALID_FORMAT_SIGNED_MESSAGE"
    ELSE IF msg.claim # NULL /\ ~IsWalletAddress(msg.claim) THEN "INVALID_FORMAT_SIGNED_MESSAGE"
    ELSE IF ~AddressCheck(ClaimedAddress(msg), msg.author) THEN "MISMATCH_ADDRESS"
    ELSE IF LookedUp(msg) = 0 THEN "CANNOT_FIND_ORDER"
    ELSE IF orders[LookedUp(msg)].status = "attested" THEN "INVALID_FORMAT_SIGNED_MESSAGE"
    ELSE IF DataCheck(orders[LookedUp(msg)], msg.data) THEN "issue"
    ELSE "MISMATCH_DATA"

\* whether the first step gets as far as the order lookup
Looks(msg) ==
    Branch(msg) \in {"CANNOT_FIND_ORDER", "INVALID_FORMAT_SIGNED_MESSAGE",
                     "issue", "MISMATCH_DATA"}
    /\ msg.block /\ msg.inner /\ (msg.claim # NULL => IsWalletAddress(msg.claim))

\* a run that ended: stage tells where ("replied": in the first step,
\* "issuance_failed", "finalize_failed", "finalized")
Ended(run, stage, reply) ==
    [run EXCEPT !.stage = stage, !.replies = Append(run.replies, reply)]

\* lines 22-89: up to the reply of a failed check, or to the call of
\* postAttestationProfile (after the 'attested successfully' message)
verifyHandler_Receive(p, msg) ==
    /\ variant = "provider"
    /\ verifying[p].stage = "idle"
    /\ pc[p].op = "idle"
    /\ LET run == [NoRun EXCEPT !.msg = msg,
                                !.id = IF Looks(msg) THEN LookedUp(msg) ELSE 0,
                                !.addr = ClaimedAddress(msg)]
       IN  IF Branch(msg) = "issue"
           THEN /\ verifying' = [verifying EXCEPT ![p] =
                                    [run EXCEPT !.stage = "issuing",
                                                !.replies = <<"ATTESTED_SUCCESSFULLY_UNIT_LATER">>]]
                /\ issued' = issued \cup {[id |-> run.id, addr |-> run.addr]}
                /\ UNCHANGED lastRun
           ELSE /\ lastRun' = Ended(run, "replied", Branch(msg))
                /\ UNCHANGED <<verifying, issued>>
    /\ UNCHANGED <<variant, orders, pc, recording, last, attested, svars>>

\* a failure path that emits the attested event all the same
verifyHandler_IssuanceFailedNotifies(p) ==
    /\ verifying[p].stage = "issuing"
    /\ lastRun' = Ended(verifying[p], "issuance_failed", "UNKNOWN_ERROR")
    /\ verifying' = [verifying EXCEPT ![p] = NoRun]
    /\ attested' = attested \cup {[id |-> verifying[p].id, addr |-> verifying[p].addr,
                                    unit |-> NULL]}
    /\ UNCHANGED <<variant, orders, pc, recording, last, issued, svars>>

\* lines 89, 97-99: postAttestationProfile rejects
verifyHandler_IssuanceFailed(p) ==
    /\ verifying[p].stage = "issuing"
    /\ lastRun' = Ended(verifying[p], "issuance_failed", "UNKNOWN_ERROR")
    /\ verifying' = [verifying EXCEPT ![p] = NoRun]
    /\ UNCHANGED <<variant, orders, pc, recording, last, issued, attested, svars>>

\* lines 89-91, 97-99: postAttestationProfile resolves with unit and
\* updateUnitAndChangeStatus(data.provider, data, address, unit) runs up to
\* its UPDATE; an error it throws lands in the inner catch
verifyHandler_Issued(p, unit) ==
    /\ verifying[p].stage = "issuing"
    /\ updateUnitAndChangeStatus_Lookup(p, AsString(Field(verifying[p].msg.data, "provider")),
                                        verifying[p].msg.data, verifying[p].addr, unit)
    /\ IF pc'[p].op = "finalize"
       THEN /\ verifying' = [verifying EXCEPT ![p].stage = "writing", ![p].unit = unit]
            /\ UNCHANGED lastRun
       ELSE /\ lastRun' = Ended([verifying[p] EXCEPT !.unit = unit],
                                 "finalize_failed", "UNKNOWN_ERROR")
            /\ verifying' = [verifying EXCEPT ![p] = NoRun]
    /\ UNCHANGED <<issued, attested, svars>>

\* lines 91-95: the UPDATE of updateUnitAndChangeStatus, then the
\* ATTESTATION_KIT_ATTESTED event and the reply with the unit
verifyHandler_Finalized(p) ==
    /\ verifying[p].stage = "writing"
    /\ updateUnitAndChangeStatus_Update(p)
    /\ attested' = attested \cup {[id |-> verifying[p].id, addr |-> verifying[p].addr,
                                    unit |-> verifying[p].unit]}
    /\ lastRun' = Ended(verifying[p], "finalized", "ATTESTATION_UNIT")
    /\ verifying' = [verifying EXCEPT ![p] = NoRun]
    /\ UNCHANGED <<issued, svars>>

(***************************************************************************)
(* SessionStore and walletAddressHandler                                   *)
(***************************************************************************)
\* the variables no session operation touches
dbvars == <<variant, orders, pc, recording, last, verifying, issued, attested, lastRun>>

\* a createSession that replaces whatever the replace argument says
createSessionAlwaysReplaces(dev, replace, id, ts) ==
    /\ sessions' = [sessions EXCEPT ![dev] =
                        [has |-> TRUE, id |-> id, ts |-> ts, address |-> NULL]]
    /\ lastSession' = [SessionCall("createSession", dev, NULL, "OK")
                          EXCEPT !.replace = replace, !.ret = "sessions"]
    /\ UNCHANGED <<added, dbvars>>

\* createSession(deviceAddress, replace): id is what nanoid draws, ts the
\* reading of the clock; the new session is a Map of id and ts only, and the
\* call then returns the sessions Map (the value of Map.prototype.set)
createSession(dev, replace, id, ts) ==
    /\ IF HasSession(dev) /\ ~replace
       THEN /\ lastSession' = [SessionCall("createSession", dev, NULL, "OK")
                                 EXCEPT !.replace = replace, !.ret = "session"]
            /\ UNCHANGED sessions
       ELSE /\ sessions' = [sessions EXCEPT ![dev] =
                               [has |-> TRUE, id |-> id, ts |-> ts, address |-> NULL]]
            /\ lastSession' = [SessionCall("createSession", dev, NULL, "OK")
                                 EXCEPT !.replace = replace, !.ret = "sessions"]
    /\ UNCHANGED <<added, dbvars>>

\* the store after setSessionWalletAddress(deviceAddress, value)
SetAddress(dev, value) ==
    IF HasSession(dev) THEN [sessions EXCEPT ![dev].address = value] ELSE sessions

setSessionWalletAddress(dev, value) ==
    /\ sessions' = SetAddress(dev, value)
    /\ lastSession' = SessionCall("setSessionWalletAddress", dev, value, "OK")
    /\ UNCHANGED <<added, dbvars>>

deleteSessionWalletAddress(dev) ==
    /\ sessions' = IF HasSession(dev) THEN [sessions EXCEPT ![dev].address = NULL]
                                       ELSE sessions
    /\ lastSession' = SessionCall("deleteSessionWalletAddress", dev, NULL, "OK")
    /\ UNCHANGED <<added, dbvars>>

deleteSession(dev) ==
    /\ sessions' = [sessions EXCEPT ![dev] = NoSession]
    /\ lastSession' = SessionCall("deleteSession", dev, NULL, "OK")
    /\ UNCHANGED <<added, dbvars>>

\* walletAddressHandler(from_address, data)
walletAddressHandler(from_address, data) ==
    /\ IF IsWalletAddress(data)
       THEN IF ~HasSession(from_address)
            THEN /\ lastSession' = SessionCall("walletAddressHandler", from_address, data,
                                                "SESSION_NOT_FOUND")
                 /\ UNCHANGED <<sessions, added>>
            ELSE /\ sessions' = SetAddress(from_address, data)
                 /\ added' = added \cup {<<from_address, data>>}
                 /\ lastSession' = SessionCall("walletAddressHandler", from_address, data,
                                                "OK")
       ELSE /\ lastSession' = SessionCall("walletAddressHandler", from_address, data,
                                           "INVALID_WALLET_ADDRESS")
            /\ UNCHANGED <<sessions, added>>
    /\ UNCHANGED dbvars

(***************************************************************************)
(* Specifications                                                          *)
(***************************************************************************)
\* one step of a state-changing call by a flow of P, its arguments drawn
\* from the data objects D, the addresses A and the units U
\* a DbService step called directly: it leaves the verification protocol's
\* state alone
Db(A) == A /\ UNCHANGED hvars

Step(P, D, A, U) ==
    \E p \in P :
        \/ \E prov \in ProviderArgs, data \in D, addr \in CreateAddressArgs \cap (A \cup {NULL}),
              dup \in BOOLEAN :
                Db(createAttestationOrder_Lookup(p, prov, data, addr, dup))
        \/ Db(createAttestationOrder_Insert(p))
        \/ \E prov \in ProviderArgs, data \in D, addr \in A \cup {NULL} :
                Db(removeWalletAddressInAttestationOrder_Lookup(p, prov, data, addr))
        \/ Db(removeWalletAddressInAttestationOrder_Update(p))
        \/ \E prov \in ProviderArgs, data \in D, addr \in A \cup {"bad"} :
                Db(updateWalletAddressInAttestationOrder_Lookup(p, prov, data, addr))
        \/ Db(updateWalletAddressInAttestationOrder_Update(p))
        \/ \E prov \in ProviderArgs, data \in D, addr \in A, unit \in U :
                Db(updateUnitAndChangeStatus_Lookup(p, prov, data, addr, unit))
        \/ Db(updateUnitAndChangeStatus_Update(p))

\* calls made one after the other by a single flow, their outcomes recorded
Next ==
    \/ Step({"flow1"}, DataObjects, Addresses, {"unit1"})
    \/ \E prov \in ProviderArgs, data \in DataObjects, addr \in Addresses \cup {NULL},
          excl \in BOOLEAN :
            Db(findOrder("flow1", prov, data, addr, excl))

Spec == Init /\ [][Next]_vars

\* two concurrent flows working on the orders of one data object
NextRace ==
    \/ Step(Procs, {DataAlice}, Addresses, Units)
    \/ \E p \in Procs, id \in 0..MaxOrders, dev \in Devices :
            Db(updateDeviceAddressInAttestationOrder(p, id, dev))

SpecRace == InitRace /\ [][NextRace]_vars

\* createOrder calls of a single flow for every shape of data object, on
\* orders in every status
NextCreate ==
    \/ \E prov \in ProviderArgs, data \in CreateData,
          addr \in CreateAddressArgs \cap {"ADDR1", NULL}, dup \in BOOLEAN :
            Db(createAttestationOrder_Lookup("flow1", prov, data, addr, dup))
    \/ Db(createAttestationOrder_Insert("flow1"))
    \/ \E prov \in ProviderArgs, data \in CreateData :
            Db(updateWalletAddressInAttestationOrder_Lookup("flow1", prov, data, "ADDR1"))
    \/ Db(updateWalletAddressInAttestationOrder_Update("flow1"))
    \/ \E prov \in ProviderArgs, data \in CreateData :
            Db(updateUnitAndChangeStatus_Lookup("flow1", prov, data, "ADDR1", "unit1"))
    \/ Db(updateUnitAndChangeStatus_Update("flow1"))

SpecCreate == Init /\ [][NextCreate]_vars

\* device rebinds by two concurrent flows while orders of one data object
\* are created, bound and finalized, outcomes recorded
NextDevice ==
    \E p \in Procs :
        \/ \E prov \in ProviderArgs, addr \in CreateAddressArgs \cap {"ADDR1", NULL} :
                Db(createAttestationOrder_Lookup(p, prov, DataAlice, addr, TRUE))
        \/ Db(createAttestationOrder_Insert(p))
        \/ \E prov \in ProviderArgs :
                Db(updateWalletAddressInAttestationOrder_Lookup(p, prov, DataAlice, "ADDR1"))
        \/ Db(updateWalletAddressInAttestationOrder_Update(p))
        \/ \E prov \in ProviderArgs :
                Db(updateUnitAndChangeStatus_Lookup(p, prov, DataAlice, "ADDR1", "unit1"))
        \/ Db(updateUnitAndChangeStatus_Update(p))
        \/ \E id \in 0..MaxOrders, dev \in Devices :
                Db(updateDeviceAddressInAttestationOrder(p, id, dev))

SpecDevice == Init /\ [][NextDevice]_vars

\* the verification protocol: one flow creates orders for claim data, binds
\* addresses and handles inbound messages, one after the other
InitVerify == InitRace /\ variant = "provider"

NextVerify ==
    \/ \E data \in {DataClaim, DataClaimOther} :
            /\ verifying["flow1"].stage = "idle"
            /\ Db(createAttestationOrder_Lookup("flow1", defaultServiceProvider, data, NULL, TRUE))
    \/ Db(createAttestationOrder_Insert("flow1"))
    \/ \E data \in {DataClaim, DataClaimOther}, addr \in Addresses :
            /\ verifying["flow1"].stage = "idle"
            /\ Db(updateWalletAddressInAttestationOrder_Lookup("flow1", defaultServiceProvider,
                                                                data, addr))
    \/ Db(updateWalletAddressInAttestationOrder_Update("flow1"))
    \/ \E msg \in Messages : verifyHandler_Receive("flow1", msg)
    \/ verifyHandler_IssuanceFailed("flow1")
    \/ \E unit \in {"unit1"} : verifyHandler_Issued("flow1", unit)
    \/ verifyHandler_Finalized("flow1")

SpecVerify == InitVerify /\ [][NextVerify]_vars

\* the message both flows of the concurrent protocol runs handle
ClaimAddr1 == SignedBy("ADDR1", "ADDR1", DataClaim)

\* two concurrent flows: each handles the same valid claim, or creates the
\* claim's order, binds or unbinds its address, in any interleaving
NextVerifyRace ==
    \E p \in Procs :
        \/ /\ verifying[p].stage = "idle"
           /\ Db(createAttestationOrder_Lookup(p, defaultServiceProvider, DataClaim, NULL, TRUE))
        \/ Db(createAttestationOrder_Insert(p))
        \/ \E addr \in Addresses :
                /\ verifying[p].stage = "idle"
                /\ Db(updateWalletAddressInAttestationOrder_Lookup(p, defaultServiceProvider,
                                                                    DataClaim, addr))
        \/ Db(updateWalletAddressInAttestationOrder_Update(p))
        \/ /\ verifying[p].stage = "idle"
           /\ Db(removeWalletAddressInAttestationOrder_Lookup(p, defaultServiceProvider,
                                                               DataClaim, NULL))
        \/ Db(removeWalletAddressInAttestationOrder_Update(p))
        \/ verifyHandler_Receive(p, ClaimAddr1)
        \/ verifyHandler_IssuanceFailed(p)
        \/ \E unit \in Units : verifyHandler_Issued(p, unit)
        \/ verifyHandler_Finalized(p)

SpecVerifyRace == InitVerify /\ [][NextVerifyRace]_vars

(***************************************************************************)
(* Properties                                                              *)
(***************************************************************************)
Present(x) == x # NULL

\* C1: attested is terminal -- no step of any interleaving of the flows
\* takes an order whose status is attested to another status.
C1_AttestedIsTerminal ==
    [][\A i \in DOMAIN orders :
          orders[i].status = "attested" => orders'[i].status = "attested"]_vars

\* a finalize UPDATE by flow p whose lookup saw the order not yet attested
FinalizeCommit(p) ==
    /\ pc[p].op = "finalize"
    /\ pc[p].seen # "attested"
    /\ pc'[p].op = "idle"

\* C2: of two concurrent finalize calls for one order and address only the
\* first writer commits -- a finalize that looked the order up before it was
\* attested never replaces a unit that is already persisted.
C2_FirstUnitIsKept ==
    [][\A p \in Procs : FinalizeCommit(p) =>
          \A i \in DOMAIN orders :
              Present(orders[i].unit) => orders'[i].unit = orders[i].unit]_vars

\* flow p inserts its row in this step
InsertCommit(p) == pc[p].op = "insert" /\ pc'[p].op = "idle"

\* an open (non-attested) order holding exactly (prov, data, addr)
OpenTwin(prov, data, addr) ==
    \E i \in DOMAIN orders :
        /\ orders[i].status # "attested"
        /\ orders[i].service_provider = prov
        /\ StoredPairs(orders[i]) = CanonicalPairs(data)
        /\ orders[i].user_wallet_address = addr

\* C3: concurrent createOrder attempts for identical (provider, data)
\* resolve to a single row -- no createOrder inserts a row while the store
\* already holds a non-attested order for the same provider, data and
\* address (so the store never holds two of them).
C3_SingleWinningRow ==
    [][\A p \in Procs : InsertCommit(p) =>
          ~OpenTwin(pc[p].prov, pc[p].data, pc[p].addr)]_vars

\* C4: an order is attested iff its unit and its walletAddress are present.
C4_AttestedIffUnitAndAddress ==
    \A i \in DOMAIN orders :
        orders[i].status = "attested"
            <=> (Present(orders[i].unit) /\ Present(orders[i].user_wallet_address))

\* C5: an order is addressed iff its walletAddress is present and its unit
\* is absent.
C5_AddressedIffAddressNoUnit ==
    \A i \in DOMAIN orders :
        orders[i].status = "addressed"
            <=> (Present(orders[i].user_wallet_address) /\ ~Present(orders[i].unit))

\* C6: an order is pending iff its walletAddress is absent.
C6_PendingIffNoAddress ==
    \A i \in DOMAIN orders :
        orders[i].status = "pending" <=> ~Present(orders[i].user_wallet_address)

\* C7: a lookup by data returns an order only if the order's stored
\* attribute set equals the requested set.
C7_MatchIsSetEquality ==
    (last.op = "find" /\ last.id # 0)
        => StoredPairs(orders[last.id]) = CanonicalPairs(last.data)

\* C8: createOrder called a second time with the same arguments and
\* allowDuplicates = true, directly after a successful first call, returns
\* the id the first call returned and inserts no row.
C8_CreateTwiceSameId ==
    (last.op = "create" /\ last.rep # 0)
        => (last.code = "OK" /\ last.id = last.rep /\ last.changed = 0)

C8_Witness ==
    /\ last.op = "create" /\ last.rep # 0
    /\ last.id = last.rep /\ last.changed = 0
    /\ last.data = DataFull
    /\ last.id = 2

\* C9: createOrder with allowDuplicates = false, when an exactly matching
\* non-attested order exists, fails with ALREADY_EXISTS carrying the status
\* and unit of the order it found, and inserts no row.
C9_DuplicateFailsAlreadyExists ==
    (last.op = "create" /\ ~last.dup /\ last.pre)
        => /\ last.code = "ALREADY_EXISTS"
           /\ last.changed = 0
           /\ last.id \in DOMAIN orders
           /\ last.status = orders[last.id].status
           /\ last.unit = orders[last.id].unit

\* C10: the row createOrder inserts is pending when no address was supplied
\* and addressed, holding that address, when one was.
C10_InsertedRowStatus ==
    (last.op = "create" /\ last.changed = 1)
        => /\ Len(orders) = last.id
           /\ orders[last.id].user_wallet_address = last.addr
           /\ orders[last.id].status = IF last.addr = NULL THEN "pending" ELSE "addressed"

\* a bind call with a valid address completes in this step
BindDone == last' # last /\ last'.op = "bind" /\ IsWalletAddress(last'.addr)

\* C11: bindAddress on a matching non-attested order sets that order's
\* walletAddress to the address and its status to addressed; when no order
\* matches it fails ADDRESS_NOT_FOUND and when the matching order is
\* attested it fails ALREADY_ATTESTED, both failures leaving the store
\* unchanged.
C11_BindAddress ==
    [][BindDone =>
          /\ last'.m \in {"addressed", "pending", "other"} =>
                /\ last'.code = "OK"
                /\ last'.id \in DOMAIN orders
                /\ orders'[last'.id].user_wallet_address = last'.addr
                /\ orders'[last'.id].status = "addressed"
          /\ last'.m = "none" =>
                (last'.code = "ADDRESS_NOT_FOUND" /\ orders' = orders)
          /\ last'.m = "attested" =>
                (last'.code = "ALREADY_ATTESTED" /\ orders' = orders)]_vars

\* an unbind call completes in this step
UnbindDone == last' # last /\ last'.op = "unbind"

\* C12: unbindAddress succeeds only on an order that is addressed with a
\* bound address, and then clears the address and sets the status pending;
\* when no order matches the selector, or the matching order is pending with
\* no bound address, it fails ADDRESS_NOT_FOUND and leaves the store
\* unchanged.
C12_UnbindAddress ==
    [][UnbindDone =>
          /\ last'.code = "OK" =>
                /\ last'.id \in DOMAIN orders
                /\ orders[last'.id].status = "addressed"
                /\ Present(orders[last'.id].user_wallet_address)
                /\ orders'[last'.id].user_wallet_address = NULL
                /\ orders'[last'.id].status = "pending"
          /\ last'.m \in {"none", "pending"} =>
                (last'.code = "ADDRESS_NOT_FOUND" /\ orders' = orders)]_vars

\* C13: bindAddress followed by unbindAddress on a pending order restores
\* status pending and clears the address; bindAddress or unbindAddress on an
\* attested order fails ALREADY_ATTESTED.
C13_BindUnbindRoundTrip ==
    [][/\ (UnbindDone /\ last'.rep # 0) =>
              /\ last'.code = "OK"
              /\ last'.id = last'.rep
              /\ orders'[last'.rep].status = "pending"
              /\ orders'[last'.rep].user_wallet_address = NULL
       /\ ((BindDone \/ UnbindDone) /\ last'.m = "attested") =>
              last'.code = "ALREADY_ATTESTED"]_vars

\* C14: rebindDeviceAddress is pre-attestation only -- no step of any
\* interleaving of rebind calls with create, bind and finalize calls changes
\* the deviceAddress of an order that is attested, and a step that changes
\* an order's deviceAddress changes nothing else in the store.
C14_RebindPreAttestationOnly ==
    [][\A i \in DOMAIN orders :
          /\ orders[i].status = "attested" =>
                orders'[i].user_device_address = orders[i].user_device_address
          /\ orders'[i].user_device_address # orders[i].user_device_address =>
                orders' = [orders EXCEPT ![i].user_device_address =
                                             orders'[i].user_device_address]]_vars

\* a rebind call on an attested order, which an earlier rebind had given a
\* device address before it was attested, changed nothing while the other
\* flow is between the lookup and the write of a finalize call
C14_Witness ==
    /\ last.op = "rebind" /\ last.code = "OK" /\ last.changed = 0
    /\ last.id \in DOMAIN orders
    /\ orders[last.id].status = "attested"
    /\ orders[last.id].user_device_address = "device1"
    /\ \E p \in Procs : pc[p].op = "finalize" /\ pc[p].id = last.id

\* a verifyHandler run completes in this step
RunDone == lastRun' # lastRun

\* this step writes no order, calls no issuance and emits no attested event
NoStateChange == orders' = orders /\ issued' = issued /\ attested' = attested

\* the message is a decodable signed-message block
WellFormed(msg) == msg.block /\ msg.json

\* C15: a signed message whose signature verification fails, or whose
\* author list is empty, gets the single reply VALIDATION_FAILED, and its
\* run changes no state: no issuance call, no order write, no attested
\* notification.
C15_ValidationFailed ==
    [][(RunDone /\ WellFormed(lastRun'.msg)
               /\ (~lastRun'.msg.sig \/ lastRun'.msg.author = NULL)) =>
          /\ lastRun'.stage = "replied"
          /\ lastRun'.replies = <<"VALIDATION_FAILED">>
          /\ NoStateChange]_vars

\* a tampered copy of a claim that would otherwise reach issuance (its data
\* belongs to an order bound to the claimed address) was refused
C15_Witness ==
    /\ lastRun.replies = <<"VALIDATION_FAILED">>
    /\ ~lastRun.msg.sig
    /\ Branch(SignedBy(lastRun.msg.author, lastRun.msg.claim, lastRun.msg.data)) = "issue"
    /\ \E i \in DOMAIN orders : /\ orders[i].status = "addressed"
                                /\ orders[i].user_wallet_address = lastRun.msg.claim

\* the message is well-formed, validly signed by an author, and its signed
\* payload parses and names, if by the ownership phrase, a valid address
ValidClaim(msg) ==
    /\ WellFormed(msg) /\ msg.sig /\ msg.author # NULL /\ msg.inner
    /\ (msg.claim # NULL => IsWalletAddress(msg.claim))

\* C16: a validly signed message whose claimed address differs from the
\* signing author's address gets the single reply MISMATCH_ADDRESS, and its
\* run changes no state: no order is acted on, no issuance call, no order
\* write.
C16_MismatchAddress ==
    [][(RunDone /\ ValidClaim(lastRun'.msg)
               /\ ClaimedAddress(lastRun'.msg) # NULL
               /\ ClaimedAddress(lastRun'.msg) # lastRun'.msg.author) =>
          /\ lastRun'.stage = "replied"
          /\ lastRun'.replies = <<"MISMATCH_ADDRESS">>
          /\ lastRun'.id = 0
          /\ NoStateChange]_vars

\* a claim for an address its author does not hold was refused while an
\* order with the claim's data is bound to the claimed address
C16_Witness ==
    /\ lastRun.replies = <<"MISMATCH_ADDRESS">>
    /\ lastRun.msg.author # lastRun.addr
    /\ \E i \in DOMAIN orders :
          /\ orders[i].status = "addressed"
          /\ orders[i].user_wallet_address = lastRun.addr
          /\ DataCheck(orders[i], lastRun.msg.data)

\* C17: a validly signed message with matching address whose data differs
\* from the stored data of the order its lookup matched, or whose declared
\* provider differs from that order's provider, gets the single reply
\* MISMATCH_DATA, and its run changes no state: no issuance call, no order
\* write.
C17_MismatchData ==
    [][(RunDone /\ ValidClaim(lastRun'.msg)
               /\ ClaimedAddress(lastRun'.msg) = lastRun'.msg.author
               /\ lastRun'.id \in DOMAIN orders
               /\ orders[lastRun'.id].status # "attested"
               /\ \/ StoredPairs(orders[lastRun'.id]) # CanonicalPairs(lastRun'.msg.data)
                  \/ Field(lastRun'.msg.data, "provider")
                        # Str(orders[lastRun'.id].service_provider)) =>
          /\ lastRun'.stage = "replied"
          /\ lastRun'.replies = <<"MISMATCH_DATA">>
          /\ NoStateChange]_vars

\* a claim whose data equals the stored data of an order bound to its
\* author, but which declares another provider, was refused
C17_Witness ==
    /\ lastRun.replies = <<"MISMATCH_DATA">>
    /\ lastRun.id \in DOMAIN orders
    /\ orders[lastRun.id].status = "addressed"
    /\ orders[lastRun.id].user_wallet_address = lastRun.msg.author
    /\ StoredPairs(orders[lastRun.id]) = CanonicalPairs(lastRun.msg.data)
    /\ Field(lastRun.msg.data, "provider") # Str(orders[lastRun.id].service_provider)

\* the last message a run sent to the device
LastReply(run) == run.replies[Len(run.replies)]

\* C18: re-submitting the same valid signed message after its run attested
\* the order gets the already-attested notice and performs zero writes: no
\* issuance call, no change to any order.
C18_ResubmitAfterAttested ==
    [][(RunDone /\ lastRun.stage = "finalized" /\ lastRun'.msg = lastRun.msg
               /\ lastRun.id \in DOMAIN orders
               /\ orders[lastRun.id].status = "attested") =>
          /\ lastRun'.stage = "replied"
          /\ lastRun'.replies = <<"ALREADY_ATTESTED">>
          /\ NoStateChange]_vars

C20_EndToEnd ==
    [][(RunDone /\ lastRun'.stage \in {"finalized", "finalize_failed"}
               /\ ClaimedAddress(lastRun'.msg) = lastRun'.msg.author
               /\ orders[lastRun'.id].user_wallet_address \in {NULL, lastRun'.addr}) =>
          /\ lastRun'.stage = "finalized"
          /\ LastReply(lastRun') = "ATTESTATION_UNIT"
          /\ orders'[lastRun'.id].status = "attested"
          /\ orders'[lastRun'.id].unit = lastRun'.unit
          /\ orders'[lastRun'.id].user_wallet_address = lastRun'.addr]_vars

\* flow p calls postAttestationProfile in this step
IssuanceCall(p) == verifying[p].stage = "idle" /\ verifying'[p].stage = "issuing"

\* C21: for one order the issuance is triggered at most once -- a flow
\* calls postAttestationProfile for an order only when no other flow has an
\* issuance for that order under way and no flow has announced its
\* attestation.
C21_IssuedAtMostOnce ==
    [][\A p \in Procs : IssuanceCall(p) =>
          /\ \A q \in Procs \ {p} :
                ~(verifying[q].stage \in {"issuing", "writing"}
                    /\ verifying[q].id = verifying'[p].id)
          /\ \A e \in attested : e.id # verifying'[p].id]_vars

\* C22: a run emits the attested notification and replies with the unit
\* only if the store then holds the order as attested with that unit and
\* that address.
C22_NotifiedOnlyIfAttested ==
    [][\A e \in attested' \ attested :
          /\ e.id \in DOMAIN orders'
          /\ orders'[e.id].status = "attested"
          /\ orders'[e.id].unit = e.unit
          /\ orders'[e.id].user_wallet_address = e.addr]_vars

\* C23: lookup filters are conjunctive -- an order a lookup returns has
\* the supplied provider, the supplied address when one is supplied, and
\* is not attested when excludeAttested is set.
C23_FiltersConjunctive ==
    (last.op = "find" /\ last.id # 0) =>
        /\ (last.prov # NULL => orders[last.id].service_provider = last.prov)
        /\ (last.addr # NULL => orders[last.id].user_wallet_address = last.addr)
        /\ (last.dup => orders[last.id].status # "attested")

\* C24: the issuance is invoked only with an address that is present,
\* valid and equal to the signing author's address; a claim that carries
\* no address never reaches the issuance call.
C24_IssuedForAuthorAddress ==
    [][\A p \in Procs : IssuanceCall(p) =>
          /\ verifying'[p].addr # NULL
          /\ IsWalletAddress(verifying'[p].addr)
          /\ verifying'[p].addr = verifying'[p].msg.author]_vars

\* the session cache alone: every operation on every endpoint
NextSession ==
    \E dev \in Endpoints :
        \/ \E replace \in BOOLEAN, id \in SessionIds, ts \in Times :
                createSession(dev, replace, id, ts)
        \/ \E value \in Addresses : setSessionWalletAddress(dev, value)
        \/ deleteSessionWalletAddress(dev)
        \/ deleteSession(dev)
        \/ \E data \in AddressTexts : walletAddressHandler(dev, data)

SpecSession == Init /\ [][NextSession]_vars

\* C25: createSession for an endpoint that has a session, replace not set,
\* leaves that session's id, creation time and address unchanged; the
\* wallet-address handler sets the session's address and emits the
\* address-bound notification only when the endpoint has a session and the
\* address is valid, and otherwise fails leaving every session unchanged;
\* no operation on one endpoint changes another endpoint's session.
C25_SessionCache ==
    [][LET c == lastSession' IN
          /\ (c.op = "createSession" /\ c.existed /\ ~c.replace)
                => sessions'[c.dev] = sessions[c.dev]
          /\ (c.op = "walletAddressHandler") =>
                IF HasSession(c.dev) /\ IsWalletAddress(c.arg)
                THEN /\ c.code = "OK"
                     /\ sessions'[c.dev] = [sessions[c.dev] EXCEPT !.address = c.arg]
                     /\ added' = added \cup {<<c.dev, c.arg>>}
                ELSE /\ c.code # "OK"
                     /\ sessions' = sessions
                     /\ added' = added
          /\ \A e \in Endpoints \ {c.dev} : sessions'[e] = sessions[e]]_vars

\* an address set by the handler survived a createSession without replace,
\* next to another endpoint's session that has no address
C25_Witness ==
    /\ lastSession.op = "createSession" /\ lastSession.existed /\ ~lastSession.replace
    /\ lastSession.dev = "device1"
    /\ sessions["device1"].address = "ADDR1"
    /\ <<"device1", "ADDR1">> \in added
    /\ sessions["device2"].has
    /\ sessions["device2"].address = NULL

====
